---- MODULE Spec2Model ----
(***************************************************************************)
(* Model of serve.py, the development server of the Timex Datalink Web     *)
(* Client: main() (chdir, bind, banner, browser launch, accept loop,       *)
(* interrupt handling) and CustomHTTPRequestHandler.end_headers, together  *)
(* with the parts of http.server / socketserver that the script inherits   *)
(* and calls (send_header, end_headers, send_head, send_error, the         *)
(* TCPServer constructor and context manager, _handle_request_noblock).    *)
(*                                                                         *)
(* Strings that the code inspects (request targets) are sequences of       *)
(* one-character strings, so that endswith, split and splitext are         *)
(* computed, not assumed.                                                  *)
(***************************************************************************)
EXTENDS Integers, Sequences, FiniteSets, TLC

VARIABLES pc, cwd, chdirs, portFree, jsGuess, socket, bound, bindAttempts,
          stdout, browserTried, browserOutcome, interrupts, cause, exit,
          resp, handled

vars == <<pc, cwd, chdirs, portFree, jsGuess, socket, bound, bindAttempts,
          stdout, browserTried, browserOutcome, interrupts, cause, exit,
          resp, handled>>

\* Requests counted by `handled' (the counter only saturates; the server
\* goes on handling requests).
MaxHandled == 2

----------------------------------------------------------------------------
(* Strings as character sequences *)

endswith(s, suf) ==
    /\ Len(s) >= Len(suf)
    /\ SubSeq(s, Len(s) - Len(suf) + 1, Len(s)) = suf

\* index of the first occurrence of ch in s, 0 when absent
find(s, ch) ==
    IF \E i \in 1..Len(s) : s[i] = ch
    THEN CHOOSE i \in 1..Len(s) : s[i] = ch /\ \A j \in 1..(i - 1) : s[j] # ch
    ELSE 0

\* index of the last occurrence of ch in s, 0 when absent
rfind(s, ch) ==
    IF \E i \in 1..Len(s) : s[i] = ch
    THEN CHOOSE i \in 1..Len(s) : s[i] = ch /\ \A j \in (i + 1)..Len(s) : s[j] # ch
    ELSE 0

\* s.split(ch, 1)[0]
split1(s, ch) == IF find(s, ch) = 0 THEN s ELSE SubSeq(s, 1, find(s, ch) - 1)

lowerChar(c) == IF c = "J" THEN "j" ELSE IF c = "S" THEN "s" ELSE c

lower(s) == [i \in 1..Len(s) |-> lowerChar(s[i])]

\* posixpath.splitext(p)[1]: the extension starts at the last dot of the
\* last component, unless that dot leads the component
splitext(p) ==
    LET d  == rfind(p, ".")
        sl == rfind(p, "/")
    IN IF d > sl + 1 THEN SubSeq(p, d, Len(p)) ELSE <<>>

JS == <<".", "j", "s">>
HTM == <<".", "h", "t", "m">>

----------------------------------------------------------------------------
(* The served tree (relative to the launcher's directory) and the requests *)

AppJs      == <<"/", "a", ".", "j", "s">>
UpperJs    == <<"/", "b", ".", "J", "S">>
IndexHtm   == <<"/", "i", ".", "h", "t", "m">>
DirJs      == <<"/", "d", ".", "j", "s">>

Files == {AppJs, UpperJs, IndexHtm}
Dirs  == {DirJs}

Targets ==
    { AppJs,                                    \* existing .js file
      AppJs \o <<"?", "v">>,                    \* .js file with a query string
      AppJs \o <<"#", "f">>,                    \* .js file with a fragment
      UpperJs,                                  \* upper-case extension
      IndexHtm,                                 \* non-.js file
      IndexHtm \o <<"?">> \o JS,                \* non-.js file, target ends in .js
      DirJs,                                    \* directory whose name ends in .js
      DirJs \o <<"/">>,                         \* the same directory, listed
      <<"/", "n", ".", "j", "s">>,              \* missing .js file
      <<"/", "n">> }                            \* missing file

Versions == {"HTTP/0.9", "HTTP/1.0"}

\* hasPath = FALSE is a request line that parse_request rejects before it
\* assigns self.path (bad version, wrong word count); request_version is
\* then still the default, HTTP/0.9.
Requests ==
    [hasPath : {TRUE}, target : Targets, version : Versions, ims : BOOLEAN]
      \cup { [hasPath |-> FALSE, target |-> <<>>, version |-> "HTTP/0.9", ims |-> FALSE] }

----------------------------------------------------------------------------
(* http.server: header buffer *)

Hdr(k, v) == [name |-> k, value |-> v]

\* BaseHTTPRequestHandler.send_header: appends, never replaces
send_header(ver, buf, k, v) ==
    IF ver # "HTTP/0.9" THEN Append(buf, Hdr(k, v)) ELSE buf

\* BaseHTTPRequestHandler.send_response: Server and Date
send_response(ver) ==
    send_header(ver, send_header(ver, <<>>, "Server", "SimpleHTTP"), "Date", "now")

\* BaseHTTPRequestHandler.end_headers: terminate the block and flush it
base_end_headers(ver, buf) ==
    IF ver # "HTTP/0.9"
    THEN [wire |-> buf, terminated |-> TRUE,  raised |-> "none"]
    ELSE [wire |-> <<>>, terminated |-> FALSE, raised |-> "none"]

\* end_headers with the test `'.js' in self.path'
end_headers_contains(hasPath, path, ver, buf) ==
    IF ~hasPath
    THEN [wire |-> <<>>, terminated |-> FALSE, raised |-> "AttributeError"]
    ELSE base_end_headers(ver,
            IF \E i \in 1..Len(path) : endswith(SubSeq(path, 1, i), JS)
            THEN send_header(ver, buf, "Content-Type", "application/javascript")
            ELSE buf)

\* end_headers that puts its header in front of the handler's headers
end_headers_front(hasPath, path, ver, buf) ==
    IF ~hasPath
    THEN [wire |-> <<>>, terminated |-> FALSE, raised |-> "AttributeError"]
    ELSE base_end_headers(ver,
            IF endswith(path, JS)
            THEN send_header(ver, <<>>, "Content-Type", "application/javascript") \o buf
            ELSE buf)

\* CustomHTTPRequestHandler.end_headers
end_headers(hasPath, path, ver, buf) ==
    IF ~hasPath
    THEN [wire |-> <<>>, terminated |-> FALSE, raised |-> "AttributeError"]
    ELSE base_end_headers(ver,
            IF endswith(path, JS)
            THEN send_header(ver, buf, "Content-Type", "application/javascript")
            ELSE buf)

----------------------------------------------------------------------------
(* http.server: SimpleHTTPRequestHandler *)

\* translate_path / urlsplit(...).path: query and fragment are dropped.
\* The targets above carry no percent-escapes and no dot segments.
translate_path(path) == split1(split1(path, "?"), "#")

rstripSlash(p) == IF endswith(p, <<"/">>) THEN SubSeq(p, 1, Len(p) - 1) ELSE p

isdir(dir, p) == dir = "script" /\ rstripSlash(p) \in Dirs

isfile(dir, p) == dir = "script" /\ p \in Files

\* guess_type: extensions_map on the extension, then on its lower case
guess_type(guess, p) ==
    LET ext == lower(splitext(p))
    IN IF ext = JS THEN guess
       ELSE IF ext = HTM THEN "text/html"
       ELSE "application/octet-stream"

\* send_error: the headers in the buffer when end_headers is called
send_error(ver) ==
    send_header(ver,
      send_header(ver,
        send_header(ver, send_response(ver), "Connection", "close"),
        "Content-Type", "text/html;charset=utf-8"),
      "Content-Length", "len")

\* send_head (and list_directory): status and the headers in the buffer
\* when end_headers is called
send_head(dir, guess, req) ==
    LET p   == translate_path(req.target)
        ver == req.version
    IN IF isdir(dir, p)
       THEN IF ~endswith(p, <<"/">>)
            THEN [status |-> 301,
                  buf |-> send_header(ver,
                            send_header(ver, send_response(ver), "Location", "slash"),
                            "Content-Length", "0")]
            ELSE [status |-> 200,
                  buf |-> send_header(ver,
                            send_header(ver, send_response(ver),
                                        "Content-type", "text/html; charset=utf-8"),
                            "Content-Length", "len")]
       ELSE IF endswith(p, <<"/">>) \/ ~isfile(dir, p)
       THEN [status |-> 404, buf |-> send_error(ver)]
       ELSE IF req.ims
       THEN [status |-> 304, buf |-> send_response(ver)]
       ELSE [status |-> 200,
             buf |-> send_header(ver,
                       send_header(ver,
                         send_header(ver, send_response(ver),
                                     "Content-type", guess_type(guess, p)),
                         "Content-Length", "len"),
                       "Last-Modified", "mtime")]

\* One request through the handler: parse_request, do_GET, end_headers
handle_one_request(dir, guess, req) ==
    LET h == IF req.hasPath THEN send_head(dir, guess, req)
             ELSE [status |-> 400, buf |-> send_error(req.version)]
        e == end_headers(req.hasPath, req.target, req.version, h.buf)
    IN [hasPath |-> req.hasPath, target |-> req.target, version |-> req.version,
        status |-> h.status, handler |-> h.buf, wire |-> e.wire,
        terminated |-> e.terminated, raised |-> e.raised, root |-> dir]

NoResp == [hasPath |-> FALSE, target |-> <<>>, version |-> "none",
           status |-> 0, handler |-> <<>>, wire |-> <<>>,
           terminated |-> FALSE, raised |-> "none", root |-> "none"]

----------------------------------------------------------------------------
(* main() *)

\* the banner without the Ctrl+C hint
BannerLines_nohint ==
    << "Serving Timex Datalink Web Client at http://localhost:8000",
       "Web App: http://localhost:8000/web/",
       "Tests: http://localhost:8000/tests/test-runner.html" >>

BannerLines ==
    << "Serving Timex Datalink Web Client at http://localhost:8000",
       "Web App: http://localhost:8000/web/",
       "Tests: http://localhost:8000/tests/test-runner.html",
       "Press Ctrl+C to stop the server" >>

\* print("\nServer stopped."): an empty line, then the notice
StoppedMsg == << "", "Server stopped." >>

print(out, lines) == out \o lines

\* a server that is never closed
server_close_leak(s) == s

\* TCPServer.__exit__ / server_close
server_close(s) == "closed"

\* `except Exception:' instead of the bare except
Caught35_exception(e) == e # "KeyboardInterrupt"

\* the bare `except:' around webbrowser.open
Caught35(e) == TRUE

\* no except clause around serve_forever
Caught40_none(e) == FALSE

\* `except KeyboardInterrupt:' around serve_forever
Caught40(e) == e = "KeyboardInterrupt"

\* a handler exception that is not caught by the server
CaughtByServer_none(e) == FALSE

\* `except Exception:' in _handle_request_noblock
CaughtByServer(e) == e # "KeyboardInterrupt"

BrowserOutcomes == {"True", "False", "Error", "KeyboardInterrupt"}

Init ==
    /\ pc = "chdir"
    /\ cwd = "caller"
    /\ chdirs = 0
    /\ portFree \in BOOLEAN
    /\ jsGuess \in {"text/javascript", "application/javascript"}
    /\ socket = "none"
    /\ bound = FALSE
    /\ bindAttempts = 0
    /\ stdout = <<>>
    /\ browserTried = FALSE
    /\ browserOutcome = "none"
    /\ interrupts = 0
    /\ cause = "none"
    /\ exit = "running"
    /\ resp = NoResp
    /\ handled = 0

\* main without the chdir
Chdir_skip ==
    /\ pc = "chdir"
    /\ pc' = "bind"
    /\ UNCHANGED <<cwd, chdirs, portFree, jsGuess, socket, bound, bindAttempts,
                   stdout, browserTried, browserOutcome, interrupts, cause,
                   exit, resp, handled>>

\* os.chdir(Path(__file__).parent)
Chdir ==
    /\ pc = "chdir"
    /\ cwd' = "script"
    /\ chdirs' = chdirs + 1
    /\ pc' = "bind"
    /\ UNCHANGED <<portFree, jsGuess, socket, bound, bindAttempts, stdout,
                   browserTried, browserOutcome, interrupts, cause, exit,
                   resp, handled>>

\* a bind failure that is swallowed
Bind_swallow ==
    /\ pc = "bind"
    /\ bindAttempts' = bindAttempts + 1
    /\ socket' = IF portFree THEN "listening" ELSE "closed"
    /\ bound' = portFree
    /\ pc' = "banner"
    /\ UNCHANGED <<cwd, chdirs, portFree, jsGuess, stdout, browserTried,
                   browserOutcome, interrupts, cause, exit, resp, handled>>

\* socketserver.TCPServer(("", PORT), ...): on a failed bind the constructor
\* closes the socket and re-raises; nothing in main catches it
Bind ==
    /\ pc = "bind"
    /\ bindAttempts' = bindAttempts + 1
    /\ IF portFree
       THEN /\ socket' = "listening"
            /\ bound' = TRUE
            /\ pc' = "banner"
            /\ UNCHANGED <<cause, exit>>
       ELSE /\ socket' = server_close(socket)
            /\ bound' = FALSE
            /\ pc' = "crashed"
            /\ cause' = "OSError"
            /\ exit' = "error"
    /\ UNCHANGED <<cwd, chdirs, portFree, jsGuess, stdout, browserTried,
                   browserOutcome, interrupts, resp, handled>>

\* the four print calls after the bind, one per step
Banner ==
    /\ pc = "banner"
    /\ stdout' = print(stdout, <<BannerLines[Len(stdout) + 1]>>)
    /\ pc' = IF Len(stdout') = Len(BannerLines) THEN "browser" ELSE "banner"
    /\ UNCHANGED <<cwd, chdirs, portFree, jsGuess, socket, bound, bindAttempts,
                   browserTried, browserOutcome, interrupts, cause, exit,
                   resp, handled>>

\* A keyboard interrupt before the browser step: no handler is in scope,
\* the exception leaves main (through the with block once it is entered)
StartupInterrupt ==
    /\ pc \in {"chdir", "bind", "banner"}
    /\ interrupts' = interrupts + 1
    /\ socket' = IF socket = "listening" THEN server_close(socket) ELSE socket
    /\ pc' = "crashed"
    /\ cause' = "KeyboardInterrupt"
    /\ exit' = "error"
    /\ UNCHANGED <<cwd, chdirs, portFree, jsGuess, bound, bindAttempts, stdout,
                   browserTried, browserOutcome, resp, handled>>

\* try: webbrowser.open(...) except: pass
Browser ==
    /\ pc = "browser"
    /\ \E o \in BrowserOutcomes :
         /\ browserTried' = TRUE
         /\ browserOutcome' = o
         /\ interrupts' = IF o = "KeyboardInterrupt" THEN interrupts + 1 ELSE interrupts
         /\ IF o \in {"Error", "KeyboardInterrupt"} /\ ~Caught35(o)
            THEN /\ socket' = server_close(socket)
                 /\ pc' = "crashed"
                 /\ cause' = o
                 /\ exit' = "error"
            ELSE /\ pc' = "serve"
                 /\ UNCHANGED <<socket, cause, exit>>
    /\ UNCHANGED <<cwd, chdirs, portFree, jsGuess, bound, bindAttempts, stdout,
                   resp, handled>>

\* serve_forever: one accepted request, handled to completion; an exception
\* raised by the handler is reported by handle_error and the loop goes on
HandleRequest ==
    /\ pc = "serve"
    /\ \E req \in Requests :
         LET r == handle_one_request(cwd, jsGuess, req)
         IN /\ resp' = r
            /\ IF r.raised # "none" /\ ~CaughtByServer(r.raised)
               THEN /\ socket' = server_close(socket)
                    /\ pc' = "crashed"
                    /\ cause' = r.raised
                    /\ exit' = "error"
               ELSE UNCHANGED <<socket, pc, cause, exit>>
    /\ handled' = IF handled < MaxHandled THEN handled + 1 ELSE handled
    /\ UNCHANGED <<cwd, chdirs, portFree, jsGuess, bound, bindAttempts, stdout,
                   browserTried, browserOutcome, interrupts>>

\* A keyboard interrupt inside serve_forever: the except clause prints the
\* notice, the with block closes the socket, main returns
ServeInterrupt ==
    /\ pc = "serve"
    /\ interrupts' = interrupts + 1
    /\ cause' = "KeyboardInterrupt"
    /\ socket' = server_close(socket)
    /\ IF Caught40("KeyboardInterrupt")
       THEN /\ stdout' = print(stdout, StoppedMsg)
            /\ pc' = "stopped"
            /\ exit' = "ok"
       ELSE /\ pc' = "crashed"
            /\ exit' = "error"
            /\ UNCHANGED stdout
    /\ UNCHANGED <<cwd, chdirs, portFree, jsGuess, bound, bindAttempts,
                   browserTried, browserOutcome, resp, handled>>

Next ==
    \/ Chdir
    \/ Bind
    \/ Banner
    \/ StartupInterrupt
    \/ Browser
    \/ HandleRequest
    \/ ServeInterrupt

Spec == Init /\ [][Next]_vars

----------------------------------------------------------------------------
(* Properties *)

JsHeader == Hdr("Content-Type", "application/javascript")

\* header names are case-insensitive
canon(n) == IF n \in {"Content-type", "Content-Type"} THEN "content-type" ELSE n

\* the values of the Content-Type headers of a header block, in order
ContentTypes(h) ==
    LET F[i \in 0..Len(h)] ==
          IF i = 0 THEN <<>>
          ELSE IF canon(h[i].name) = "content-type"
               THEN Append(F[i - 1], h[i].value)
               ELSE F[i - 1]
    IN F[Len(h)]

Answered == resp # NoResp /\ resp.hasPath

\* C1: every response with a header block to a request whose path ends in
\* .js carries exactly one Content-Type, application/javascript: the value
\* the default handler emitted is overridden, not kept alongside.
C1_Overridden ==
    (Answered /\ resp.terminated /\ endswith(resp.target, JS))
        => ContentTypes(resp.wire) = <<"application/javascript">>

\* C2: for a request whose path does not end in .js, end_headers adds,
\* removes and changes no header: the headers sent are exactly the
\* headers the default handler produced.
C2_OtherPathsUntouched ==
    (Answered /\ ~endswith(resp.target, JS))
        => (resp.wire = resp.handler /\ resp.raised = "none")

C2_Witness ==
    /\ Answered
    /\ resp.target = AppJs \o <<"?", "v">>
    /\ resp.status = 200
    /\ resp.terminated
    /\ Len(resp.wire) = 5

\* C3 as stated: a keyboard interrupt at any point after the bind has
\* succeeded stops the loop, prints the shutdown message, ends the process
\* normally and leaves the socket closed.
C3_AnyPointAfterBind ==
    [][(interrupts' = interrupts + 1 /\ bound)
          => (/\ pc' = "stopped"
              /\ exit' = "ok"
              /\ socket' = "closed"
              /\ stdout' = stdout \o <<"", "Server stopped.">>)]_vars

\* C3 amended: a keyboard interrupt delivered while the launcher is in the
\* accept loop stops the loop, prints the shutdown message, ends the
\* process normally and leaves the socket closed.
C3_InAcceptLoop ==
    [][(interrupts' = interrupts + 1 /\ pc = "serve")
          => (/\ pc' = "stopped"
              /\ exit' = "ok"
              /\ socket' = "closed"
              /\ stdout' = stdout \o <<"", "Server stopped.">>)]_vars

C3_Witness ==
    /\ pc = "stopped"
    /\ exit = "ok"
    /\ socket = "closed"
    /\ handled > 0

\* C4: when the bind fails, startup fails with an error: no banner line is
\* printed, the browser is not tried, the accept loop is not entered, and
\* the bind is attempted once only.
C4_BindFailureIsFatal ==
    (bindAttempts > 0 /\ ~portFree)
        => (/\ pc = "crashed"
            /\ exit = "error"
            /\ cause = "OSError"
            /\ stdout = <<>>
            /\ ~browserTried
            /\ resp = NoResp
            /\ handled = 0
            /\ bindAttempts = 1
            /\ socket # "listening")

C4_Witness == bindAttempts = 1 /\ ~portFree /\ pc = "crashed"

\* C5: whatever the browser launch does (returns true or false, raises),
\* nothing is printed and the launcher enters the accept loop with the
\* socket still listening.
C5_BrowserFailureDiscarded ==
    [][pc = "browser"
          => (/\ pc' = "serve"
              /\ socket' = "listening"
              /\ stdout' = stdout
              /\ exit' = "running")]_vars

C5_Witness ==
    /\ browserOutcome = "Error"
    /\ pc = "serve"
    /\ resp.status = 200

C7_Lifecycle ==
    /\ [](pc = "serve" => (bound /\ socket = "listening"))
    /\ [][/\ (pc = "serve" /\ pc' # "serve")
               => (interrupts' = interrupts + 1 /\ pc' = "stopped")
          /\ (pc = "serve" /\ resp' # resp) => pc' = "serve"
          /\ (pc' = "stopped" /\ pc # "stopped")
               => (pc = "serve" /\ interrupts' = interrupts + 1)
          /\ (pc' = "serve" /\ pc # "serve") => pc = "browser"
          /\ pc = "stopped" => pc' = "stopped"]_vars

C7_Witness ==
    /\ pc = "serve"
    /\ resp.raised = "AttributeError"
    /\ handled = 2

\* C8: the working directory is the launcher's directory before the socket
\* exists and whenever a request is handled; it is set once and never
\* changed afterwards.
C8_ChdirFirst ==
    /\ []((socket # "none" \/ bindAttempts > 0) => (cwd = "script" /\ chdirs = 1))
    /\ [](resp # NoResp => resp.root = "script")
    /\ [](chdirs <= 1)
    /\ [][cwd = "script" => cwd' = "script"]_vars

C8_Witness ==
    /\ Answered
    /\ resp.target = IndexHtm
    /\ resp.status = 200
    /\ resp.root = "script"

\* C9 as stated: the output of a run stopped by an interrupt is exactly
\* four lines: the three URL lines and the shutdown notice.
C9_FourLines ==
    pc = "stopped"
        => stdout = << "Serving Timex Datalink Web Client at http://localhost:8000",
                       "Web App: http://localhost:8000/web/",
                       "Tests: http://localhost:8000/tests/test-runner.html",
                       "Server stopped." >>

\* C9 amended: the output of a run stopped by an interrupt is exactly: the
\* three URL lines and the Ctrl+C hint (printed after the bind and before
\* serving), then an empty line and the shutdown notice.
C9_SixLines ==
    /\ ~bound => stdout = <<>>
    /\ pc = "serve"
         => stdout = << "Serving Timex Datalink Web Client at http://localhost:8000",
                        "Web App: http://localhost:8000/web/",
                        "Tests: http://localhost:8000/tests/test-runner.html",
                        "Press Ctrl+C to stop the server" >>
    /\ pc = "stopped"
         => stdout = << "Serving Timex Datalink Web Client at http://localhost:8000",
                        "Web App: http://localhost:8000/web/",
                        "Tests: http://localhost:8000/tests/test-runner.html",
                        "Press Ctrl+C to stop the server",
                        "",
                        "Server stopped." >>

C9_Witness == pc = "stopped" /\ Len(stdout) = 6

\* C10: on every header block of a response whose request target ends in
\* .js, whatever the status, end_headers appends exactly one
\* Content-Type: application/javascript header after the headers emitted
\* before, which are all kept; a target that names a .js file followed by a
\* query string or fragment gets no such header.
C10_HookOnRawTarget ==
    /\ (Answered /\ resp.terminated /\ endswith(resp.target, JS))
         => resp.wire = Append(resp.handler, JsHeader)
    /\ (Answered /\ ~endswith(resp.target, JS)
                 /\ endswith(translate_path(resp.target), JS))
         => (/\ Len(resp.wire) = Len(resp.handler)
             /\ \A i \in 1..Len(resp.wire) : resp.wire[i] # JsHeader)

C10_Witness ==
    /\ Answered
    /\ resp.terminated
    /\ endswith(resp.target, JS)
    /\ resp.status = 404
    /\ ContentTypes(resp.wire) = <<"text/html;charset=utf-8", "application/javascript">>

====
